---- MODULE Spec2Model ----
(***************************************************************************)
(* Orbital kinematics, trail recording and camera focus of the 3D solar    *)
(* system scene (Home -> SolarSystem -> Scene -> Planet / Satellite /      *)
(* CameraZoomController).                                                  *)
(*                                                                         *)
(* Units.  Lengths are held in tenths of a scene unit, body speeds in      *)
(* thousandths, the time-speed multiplier in tenths, wall-clock time in    *)
(* milliseconds and frame deltas in seconds.  An angle is held in units    *)
(* of 1e-5 rad, so delta * speed * timeSpeed * 0.1 is the integer          *)
(* delta * speed * timeSpeed.  Math.cos / Math.sin are evaluated on the    *)
(* angle rounded down to a whole quarter turn, where they are exact.       *)
(*                                                                         *)
(* React.  A value read inside a useFrame callback or an effect is the     *)
(* value of the render that created the callback; the state written by a   *)
(* setter becomes visible to callbacks at the next commit.  A handler of   *)
(* a user event commits before it returns; the updates queued by a frame   *)
(* are committed by the scheduler task Render, which may or may not run    *)
(* before the next frame.                                                  *)
(***************************************************************************)
EXTENDS Integers, Sequences, FiniteSets, TLC

\* ---------------------------------------------------------------- bounds
\* wall-clock seconds explored, and animateZoom loops in flight at once
MaxSeconds == 4
MaxAnimations == 2
\* frames of the ambient particle fields explored
MaxAmbientFrames == 3
\* frame deltas (seconds): a frame, and a frame as long as half a focus animation
Deltas == {1, 2}
\* timeSpeed in tenths: Home's default 5 and the slider's maximum 10
TimeSpeeds == {50, 100}
\* slider positions of the time speed, in tenths (min 0.1, max 10, step 0.1),
\* and the days the simulated date is followed for
SliderSpeeds == {1, 5, 10, 15, 50, 100}
MaxDays == 12
\* trail lengths small enough for a trail to fill within MaxSeconds
\* (the slider offers 10 .. 100)
TrailLengths == {1, 2}
TrailTypes == {"classic", "solid", "none"}
\* the draws of Math.random() * Math.PI * 2 explored, in 1e-5 rad
InitAngles == {200000}
\* the bodies and galaxies of the scene that are explored
Planets == {"mercury", "earth", "neptune"}
Satellites == {"moon", "triton"}
\* the planets that are clicked while the scene plays
FocusTargets == {"mercury", "earth"}
Galaxies == {"andromeda"}
\* the planet clicked while playback is paused and resumed
PauseTargets == {"earth"}
\* the planets clicked to compare viewing offsets: the three named in the
\* direction switch and one that falls to its default case
OffsetTargets == {"saturn", "earth", "jupiter", "venus"}
\* galaxy.type, and the generator sizes explored (displaySize * scale, in
\* thousandths): the display sizes of galaxyData, and 0.5 .. 20 in steps of 0.5
\* with a third decimal that makes size * 100 fractional
GalaxyTypes == {"spiral", "elliptical", "irregular", "dwarf"}
GalaxySizes ==
  {18000, 25000, 35000, 40000, 45000, 50000, 80000} \cup {500 * k + 7 : k \in 1 .. 40}
\* loadMaterials calls followed, the planets whose RealisticPlanet is followed
\* and the texture kinds of their configurations that are followed
MaxLoads == 2
TexturedPlanets == {"earth"}
TextureKeys == {"diffuse", "clouds"}
\* textures and geometries constructed in one run, the planetTextures keys
\* and the GeometryManager keys that are followed
MaxResources == 3
CacheKeys == {"earth", "moon"}
SphereKeys == {"sphere_1.00_64"}
RingKeys == {"ring_2.50_4.00_64"}
\* the draws of Math.random() for a particle created or respawned with the
\* scene (positions in the units of its field, see the particle fields below)
DustSpawns == { [pos |-> <<0, 0, 0>>, vel |-> <<3, 3, 0 - 3>>, phase |-> 0] }
WindSpawns == { [pos |-> <<330, 0, 0>>, vel |-> <<5, 0, 0>>] }
PlasmaSpawns == { [pos |-> <<3000, 0, 0>>, vel |-> <<4, 0 - 4, 4>>, phase |-> 0] }

\* ------------------------------------------------------------ static data
Null == "null"
Bodies == Planets \cup Satellites

planetData ==
  [ mercury |-> [size |-> 4,  distance |-> 80,  speed |-> 4150, realDistance |-> 120],
    venus   |-> [size |-> 9,  distance |-> 120, speed |-> 1620, realDistance |-> 180],
    earth   |-> [size |-> 10, distance |-> 160, speed |-> 1000, realDistance |-> 250],
    mars    |-> [size |-> 5,  distance |-> 220, speed |-> 530,  realDistance |-> 320],
    jupiter |-> [size |-> 25, distance |-> 350, speed |-> 84,   realDistance |-> 600],
    saturn  |-> [size |-> 21, distance |-> 450, speed |-> 34,   realDistance |-> 800],
    uranus  |-> [size |-> 16, distance |-> 550, speed |-> 12,   realDistance |-> 1000],
    neptune |-> [size |-> 15, distance |-> 650, speed |-> 6,    realDistance |-> 1200] ]

satelliteDatabase ==
  [ moon   |-> [distance |-> 20, speed |-> 2000],
    triton |-> [distance |-> 35, speed |-> 0 - 2000] ]

planetSatellites ==
  [ mercury |-> {}, venus |-> {}, earth |-> {"moon"}, neptune |-> {"triton"} ]

\* the planet a satellite is rendered under
ParentOf(s) == CHOOSE p \in DOMAIN planetSatellites : s \in planetSatellites[p]

\* Planet useFrame / getRotationSpeed: self-rotation speeds, in hundredths
rotationSpeed ==
  [ mercury |-> 10, venus |-> 0 - 5, earth |-> 20, mars |-> 18,
    jupiter |-> 40, saturn |-> 35, uranus |-> 15, neptune |-> 16 ]

BodySpeed(b) ==
  IF b \in DOMAIN planetData THEN planetData[b].speed ELSE satelliteDatabase[b].speed

Duration == 2000
MsPerSecond == 1000
TwoPi == 628319
QuarterTurn == 157080

\* ------------------------------------------------------------ vector math
Vec(x, y, z) == <<x, y, z>>
Origin == Vec(0, 0, 0)

Min(a, b) == IF a < b THEN a ELSE b
Max(a, b) == IF a > b THEN a ELSE b

RECURSIVE GCD(_, _)
GCD(a, b) == IF b = 0 THEN a ELSE GCD(b, a % b)

\* Math.cos and Math.sin on the quarter turn below the angle
Sector(a) == (a % TwoPi) \div QuarterTurn
CosQ(a) == LET s == Sector(a) IN IF s = 0 THEN 1 ELSE IF s = 2 THEN 0 - 1 ELSE 0
SinQ(a) == LET s == Sector(a) IN IF s = 1 THEN 1 ELSE IF s = 3 THEN 0 - 1 ELSE 0

\* THREE.Vector3.lerpVectors(v1, v2, alpha) with alpha = num / den
LerpVectors(v1, v2, num, den) ==
  [i \in 1..3 |-> v1[i] + ((v2[i] - v1[i]) * num) \div den]

DistanceSq(u, v) ==
  (u[1] - v[1]) * (u[1] - v[1]) + (u[2] - v[2]) * (u[2] - v[2])
    + (u[3] - v[3]) * (u[3] - v[3])

RECURSIVE SqrtBetween(_, _, _)
SqrtBetween(n, lo, hi) ==
  IF lo >= hi THEN lo
  ELSE LET mid == (lo + hi + 1) \div 2
       IN IF mid * mid <= n THEN SqrtBetween(n, mid, hi) ELSE SqrtBetween(n, lo, mid - 1)

\* Math.sqrt, rounded down
Sqrt(n) == SqrtBetween(n, 0, 46340)

\* --------------------------------------------------------------- variables
VARIABLES
  isPlaying,         \* Home
  timeSpeed,
  trailType,
  trailLength,
  viewMode,
  selectedPlanet,
  zoomTargetPlanet,  \* SolarSystem
  planetPositions,   \* Scene: the Map of reported planet positions
  posDirty,          \* a setPlanetPositions update awaits its commit
  angle,             \* Planet / Satellite: the angle state
  rAngle,            \* the angle of the last committed render (the closure's)
  orbitPosition,     \* Planet: orbitRef.current.position
  trailPositions,    \* Planet
  cameraPosition,    \* camera.position
  controlsTarget,    \* orbitControlsRef.current.target
  isZooming,         \* CameraZoomController
  animations,        \* the animateZoom loops with a frame requested, oldest first
  now,               \* Date.now()
  ideal,             \* history: initial angle plus every increment of a playing tick
  phase,             \* history: paused, held (a frame passed while paused),
                     \*          resumed, running (a tick followed the resume)
  zoomLog,           \* history: the animateZoom steps of the latest action
  settledOn,         \* history: the body whose focus animation has completed
  motion,            \* history: the camera displacement of the latest frame
  preInterrupt,      \* history: motion at the latest mid-flight restart
  rPosition,         \* Planet: currentPosition of the last committed render
  satellitePosition, \* Satellite: orbitRef.current.position
  realisticRendering,\* Home
  rotation,          \* Planet / RealisticPlanet: the mesh's rotation.y
  dust,              \* CosmicDust: one particle (position, velocity, phase)
  wind,              \* SolarWind: one particle (position, velocity)
  plasma,            \* SunPlasma: one particle (position, velocity, phase)
  ambientFrames,     \* frames the particle fields have run
  particleData,      \* the arrays of the latest particle generator call (lengths)
  simulationDate,    \* Home: the simulated date, in days
  managerTextures,   \* TextureManager.loadedTextures: path -> texture (0: none)
  loaderLog,         \* history: the paths of the loader.load calls, in call order;
                     \*          a texture is named by the index of its call
  loaderRequests,    \* TextureManager: the loader.load calls not yet settled
  materialLoads,     \* RealisticPlanet: the loadMaterials calls made, in order
  materialsEffectRan,\* the mounted RealisticPlanets whose effect has run
  solarSystemMounted,\* the page's SolarSystem component is mounted
  loadedTextures,    \* the module-level texture cache: key -> texture (0: no entry)
  textureLoading,    \* the textureLoader.load calls not yet settled
  disposedTextures,  \* history: the textures dispose() was called on
  sphereGeometries,  \* GeometryManager: key -> geometry (0: no entry)
  ringGeometries,
  disposedGeometries,\* history: the geometries dispose() was called on
  created,           \* history: the textures and geometries constructed so far
  handedOut,         \* history: the resource the latest cache lookup returned
  simulatedDays      \* history: the sum of timeSpeed over the interval ticks, in
                     \*          tenths of a day

vars == << isPlaying, timeSpeed, trailType, trailLength, viewMode, selectedPlanet,
           zoomTargetPlanet, planetPositions, posDirty, angle, rAngle, orbitPosition,
           trailPositions, cameraPosition, controlsTarget, isZooming, animations, now,
           ideal, phase, zoomLog, settledOn, motion, preInterrupt, rPosition,
           satellitePosition, realisticRendering, rotation, dust, wind, plasma,
           ambientFrames, particleData, simulationDate, managerTextures, loaderLog,
           loaderRequests, materialLoads, materialsEffectRan, solarSystemMounted,
           loadedTextures, textureLoading, disposedTextures, sphereGeometries,
           ringGeometries, disposedGeometries, created, handedOut, simulatedDays >>

homeVars == << isPlaying, timeSpeed, trailType, trailLength, viewMode, selectedPlanet,
               realisticRendering >>
bodyVars == << angle, orbitPosition, trailPositions, planetPositions, ideal,
               satellitePosition, rotation >>
ambientVars == << dust, wind, plasma, ambientFrames >>
cameraVars == << cameraPosition, controlsTarget, isZooming, animations >>
loaderVars == << managerTextures, loaderLog, loaderRequests, materialLoads >>
textureVars == << loaderVars, materialsEffectRan >>
dateVars == << simulationDate, simulatedDays >>
cacheVars == << solarSystemMounted, loadedTextures, textureLoading, disposedTextures,
                sphereGeometries, ringGeometries, disposedGeometries, created,
                handedOut >>
pageVars == << particleData, dateVars, textureVars, cacheVars >>

\* ------------------------------------------------- Planet / Satellite frame
Mounted == viewMode = "solar-system"

\* a frame callback without the early return on pause
TickingWhilePaused == Mounted

\* if (!isPlaying) return
Ticking == Mounted /\ isPlaying

\* useState(Math.random() * Math.PI * 2) of every body mounted with the scene
MountAngles(a0) == [b \in Bodies |-> a0]

\* the self-rotation runs after the early return of Planet useFrame; the
\* RealisticPlanet useFrame takes no isPlaying
Spinning == Mounted /\ (isPlaying \/ realisticRendering)

\* rotation.y += delta * rotationSpeed * timeSpeed, in 1e-3 rad
RotationIncrement(p, delta) == delta * rotationSpeed[p] * timeSpeed

\* newAngle = angle + delta * speed * timeSpeed * 0.1, angle read from the closure
NewAngle(b, delta) == rAngle[b] + delta * BodySpeed(b) * timeSpeed

\* (Math.cos(newAngle) * distance, 0, Math.sin(newAngle) * distance)
OrbitPoint(a, distance) == Vec(CosQ(a) * distance, 0, SinQ(a) * distance)

PlanetDistance(p) == planetData[p].distance

\* the new position put after the previous entries, oldest first
NewTrailOldestFirst(prev, newPos) ==
  LET all == prev \o <<newPos>>
  IN SubSeq(all, 1, Min(Len(all), trailLength))

\* the prepend without the slice
NewTrailUnbounded(prev, newPos) == <<newPos>> \o prev

\* [newPos, ...prev].slice(0, Math.floor(trailLength))
NewTrail(prev, newPos) ==
  LET all == <<newPos>> \o prev
  IN SubSeq(all, 1, Min(Len(all), trailLength))

\* Scene.handlePlanetPositionUpdate for every planet of the frame
SetPositions(prev, newPos) ==
  [p \in (DOMAIN prev) \cup Planets |-> IF p \in Planets THEN newPos[p] ELSE prev[p]]

\* --------------------------------------------------- CameraZoomController
zoomParams ==
  [ mercury |-> [distance |-> 25,  height |-> 5],
    venus   |-> [distance |-> 35,  height |-> 8],
    earth   |-> [distance |-> 45,  height |-> 12],
    mars    |-> [distance |-> 35,  height |-> 8],
    jupiter |-> [distance |-> 100, height |-> 20],
    saturn  |-> [distance |-> 120, height |-> 25],
    uranus  |-> [distance |-> 70,  height |-> 15],
    neptune |-> [distance |-> 70,  height |-> 15],
    sun     |-> [distance |-> 180, height |-> 30] ]

ZoomParamsOf(id) ==
  IF id \in DOMAIN zoomParams THEN zoomParams[id]
  ELSE [distance |-> Max(planetData[id].size * 4, 30),
        height   |-> Max(planetData[id].size * 2, 15)]

\* the switch reduced to its default case
RawDirectionAlwaysDefault(id) == Vec(10, 3, 8)

\* the viewing direction before normalize(), in tenths
RawDirection(id) ==
  CASE id = "saturn"  -> Vec(8, 6, 8)
    [] id = "earth"   -> Vec(10, 4, 8)
    [] id = "jupiter" -> Vec(10, 2, 6)
    [] OTHER          -> Vec(10, 3, 8)

\* direction.normalize() scaled by len: v[i] * len / |v|
Scaled(v, len) ==
  LET norm == Sqrt(1000000 * (v[1] * v[1] + v[2] * v[2] + v[3] * v[3]))
  IN [i \in 1..3 |-> (v[i] * len * 1000) \div norm]

ViewOffset ==
  [id \in DOMAIN planetData |->
     LET params == ZoomParamsOf(id)
         d == Scaled(RawDirection(id), params.distance)
     IN Vec(d[1], d[2] + params.height, d[3])]

TargetCameraPosition(id, planetPosition) ==
  Vec(planetPosition[1] + ViewOffset[id][1], ViewOffset[id][2],
      planetPosition[3] + ViewOffset[id][3])

\* a restart that keeps the start pose of the loop already in flight
NewAnimationFromEarlierStart(id, cam, tgt, positions, t) ==
  [ target               |-> id,
    startPosition        |-> IF animations = << >> THEN cam
                             ELSE animations[1].startPosition,
    startTarget          |-> IF animations = << >> THEN tgt
                             ELSE animations[1].startTarget,
    targetCameraPosition |-> TargetCameraPosition(id, positions[id]),
    planetPosition       |-> positions[id],
    startTime            |-> t ]

\* startPosition = camera.position.clone(), startTarget = target.clone()
NewAnimation(id, cam, tgt, positions, t) ==
  [ target               |-> id,
    startPosition        |-> cam,
    startTarget          |-> tgt,
    targetCameraPosition |-> TargetCameraPosition(id, positions[id]),
    planetPosition       |-> positions[id],
    startTime            |-> t ]

\* one call of animateZoom at wall-clock time t
\* an animateZoom that requests its next frame whatever the progress is
AnimateZoomNeverDone(a, t) ==
  [ cam  |-> a.startPosition, tgt |-> a.startTarget, done |-> FALSE ]

AnimateZoom(a, t) ==
  LET elapsed == t - a.startTime
      e   == Min(elapsed, Duration)
      g   == GCD(e, Duration)
      pn  == e \div g
      pd  == Duration \div g
      den == pd * pd * pd
      num == den - (pd - pn) * (pd - pn) * (pd - pn)
      done == ~(e < Duration)
  IN [ cam  |-> LerpVectors(a.startPosition, a.targetCameraPosition, num, den),
       tgt  |-> IF done THEN a.planetPosition
                ELSE LerpVectors(a.startTarget, a.planetPosition, num, den),
       done |-> done ]

LogEntry(a, s, from, d) ==
  [ target |-> a.target, start |-> a.startPosition, from |-> from, cam |-> s.cam,
    look |-> s.tgt, dest |-> a.planetPosition, done |-> s.done, d |-> d ]

\* animation frames that do nothing while playback is paused
RECURSIVE RunAnimationsOnlyWhilePlaying(_, _, _)
RunAnimationsOnlyWhilePlaying(rest, acc, t) ==
  IF rest = <<>> THEN acc
  ELSE IF ~isPlaying THEN [acc EXCEPT !.anims = acc.anims \o rest]
  ELSE LET a == Head(rest)
           s == AnimateZoom(a, t)
       IN RunAnimationsOnlyWhilePlaying(Tail(rest),
            [ cam     |-> s.cam,
              tgt     |-> s.tgt,
              zooming |-> IF s.done THEN FALSE ELSE acc.zooming,
              anims   |-> IF s.done THEN acc.anims ELSE Append(acc.anims, a),
              settled |-> IF s.done THEN a.target ELSE acc.settled,
              log     |-> Append(acc.log, LogEntry(a, s, acc.cam, acc.d)),
              d       |-> acc.d ],
            t)

\* the requested animation frames of one browser frame, in request order
RECURSIVE RunAnimations(_, _, _)
RunAnimations(rest, acc, t) ==
  IF rest = <<>> THEN acc
  ELSE LET a == Head(rest)
           s == AnimateZoom(a, t)
       IN RunAnimations(Tail(rest),
            [ cam     |-> s.cam,
              tgt     |-> s.tgt,
              zooming |-> IF s.done THEN FALSE ELSE acc.zooming,
              anims   |-> IF s.done THEN acc.anims ELSE Append(acc.anims, a),
              settled |-> IF s.done THEN a.target ELSE acc.settled,
              log     |-> Append(acc.log, LogEntry(a, s, acc.cam, acc.d)),
              d       |-> acc.d ],
            t)

NoMotion == [dist2 |-> 0, d |-> 0]

CameraNow(d) ==
  [ cam |-> cameraPosition, tgt |-> controlsTarget, zooming |-> isZooming,
    anims |-> <<>>, settled |-> Null, log |-> <<>>, d |-> d ]

\* the body of the CameraZoomController effect for targetPlanet = id
ZoomEffect(id) ==
  IF id = Null
  THEN [ cam |-> cameraPosition, tgt |-> controlsTarget, zooming |-> isZooming,
         anims |-> animations, log |-> <<>>, started |-> FALSE ]
  ELSE IF id \in DOMAIN planetData /\ id \in DOMAIN planetPositions
  THEN LET a == NewAnimation(id, cameraPosition, controlsTarget, planetPositions, now)
           s == AnimateZoom(a, now)
       IN [ cam     |-> s.cam,
            tgt     |-> s.tgt,
            zooming |-> ~s.done,
            anims   |-> IF s.done THEN animations ELSE Append(animations, a),
            log     |-> <<LogEntry(a, s, cameraPosition, 0)>>,
            started |-> TRUE ]
  ELSE [ cam |-> cameraPosition, tgt |-> controlsTarget, zooming |-> TRUE,
         anims |-> animations, log |-> <<>>, started |-> FALSE ]

\* A commit while the scene stays mounted: callbacks now close over the
\* committed state, and the CameraZoomController effect runs when one of its
\* dependencies (targetPlanet, planetPositions) changed.
CommitZoom(id, changed) ==
  LET run == Mounted /\ (changed \/ posDirty)
      r   == ZoomEffect(id)
  IN /\ rAngle' = angle
     /\ rPosition' = orbitPosition
     /\ posDirty' = FALSE
     /\ IF run
        THEN /\ Len(r.anims) <= MaxAnimations
             /\ cameraPosition' = r.cam
             /\ controlsTarget' = r.tgt
             /\ isZooming' = r.zooming
             /\ animations' = r.anims
             /\ zoomLog' = r.log
             /\ settledOn' = IF r.started \/ changed THEN Null ELSE settledOn
             /\ preInterrupt' =
                  IF r.started /\ animations # <<>> /\ motion.d > 0
                     /\ animations[Len(animations)].target # id
                  THEN motion ELSE preInterrupt
        ELSE /\ UNCHANGED << cameraVars, preInterrupt >>
             /\ zoomLog' = <<>>
             /\ settledOn' = IF changed THEN Null ELSE settledOn

\* ---------------------------------------------------------- particle fields
\* Dust lengths are held in 1e-4 scene units, solar-wind lengths in 1e-2 and
\* plasma lengths in 1e-3.  Math.sin / Math.cos of the clock are evaluated on
\* whole quarter periods, one per frame.
sunSize == 3

SinK(k) == << 0, 1, 0, 0 - 1 >>[(k % 4) + 1]
CosK(k) == SinK(k + 1)

Plus(u, v) == [i \in 1..3 |-> u[i] + v[i]]

\* CosmicDust: the faces of the bounding box (250, 100, 250)
DustBound == Vec(250 * 10000, 100 * 10000, 250 * 10000)

\* a coordinate left where the step put it, without the two tests
WrapLeftOutside(c, bound) == c

\* if (p > bound) p = -bound; if (p < -bound) p = bound
Wrap(c, bound) ==
  LET c1 == IF c > bound THEN 0 - bound ELSE c
  IN IF c1 < 0 - bound THEN bound ELSE c1

\* CosmicDust useFrame for one particle at frame k
DustStep(d, k) ==
  LET drift == Vec(5 * SinK(k + d.phase), 5 * CosK(k + d.phase), 5 * SinK(k + d.phase))
  IN [ pos   |-> [i \in 1..3 |-> Wrap(d.pos[i] + d.vel[i] + drift[i], DustBound[i])],
       vel   |-> d.vel,
       phase |-> d.phase ]

\* SolarWind: distance > sunSize * 25
WindLimit == sunSize * 25 * 100

\* SolarWind useFrame for one particle; fresh is the respawn drawn by Math.random()
WindStep(w, fresh) ==
  LET pos == Plus(w.pos, w.vel)
  IN IF DistanceSq(pos, Origin) > WindLimit * WindLimit
     THEN fresh
     ELSE [pos |-> pos, vel |-> w.vel]

\* SunPlasma: distance > sunSize * 1.2 || distance < sunSize * 0.9
PlasmaOuter == sunSize * 1200
PlasmaInner == sunSize * 900

\* SunPlasma useFrame for one particle at frame k
PlasmaStep(q, k, fresh) ==
  LET turbulence == 2 * SinK(k + q.phase)
      pos == Plus(q.pos, Vec(q.vel[1] + turbulence, q.vel[2] + 2 * CosK(k + q.phase),
                             q.vel[3] + turbulence))
      d2  == DistanceSq(pos, Origin)
  IN IF d2 > PlasmaOuter * PlasmaOuter \/ d2 < PlasmaInner * PlasmaInner
     THEN fresh
     ELSE [pos |-> pos, vel |-> q.vel, phase |-> q.phase]

\* Scene: camera.position.set(...) for the view mode (realScale off)
DefaultCameraPosition(m) ==
  IF m = "galaxy-cluster" THEN Vec(0, 1500, 3000) ELSE Vec(0, 500, 500)

\* a view switch that keeps the focus target
TargetKeptAfterViewMode == zoomTargetPlanet

\* SolarSystem: useEffect(() => setZoomTargetPlanet(null), [props.viewMode])
TargetAfterViewMode == Null

\* ------------------------------------------------------------------- Init
\* ----------------------------------------------------- particle generators
\* Each generator is modelled by the lengths of the arrays it returns; size is
\* the generator's size parameter in thousandths.
GalaxyArrays(particleCount) ==
  [ positions |-> particleCount * 3, colors |-> particleCount * 3,
    scales |-> particleCount, count |-> particleCount ]

\* particleCount = Math.floor(size * 100)
createSpiralGalaxy(size) == GalaxyArrays((size * 100) \div 1000)

\* particleCount = Math.floor(size * 80)
createEllipticalGalaxy(size) == GalaxyArrays((size * 80) \div 1000)

\* particleCount = Math.floor(size * 60)
createIrregularGalaxy(size) == GalaxyArrays((size * 60) \div 1000)

\* Galaxy: the switch on galaxy.type
GalaxyParticleData(type, size) ==
  CASE type = "spiral"     -> createSpiralGalaxy(size)
    [] type = "elliptical" -> createEllipticalGalaxy(size)
    [] type = "irregular"  -> createIrregularGalaxy(size)
    [] type = "dwarf"      -> createIrregularGalaxy(size \div 2)
    [] OTHER               -> createSpiralGalaxy(size)

\* CosmicDust useMemo: particleCount = 5000
CosmicDustArrays ==
  [ positions |-> 5000 * 3, velocities |-> 5000 * 3, colors |-> 5000 * 3,
    sizes |-> 5000, count |-> 5000 ]

\* SolarWind useMemo: particleCount = 8000
SolarWindArrays ==
  [ positions |-> 8000 * 3, velocities |-> 8000 * 3, colors |-> 8000 * 3,
    sizes |-> 8000, count |-> 8000 ]

\* SunPlasma useMemo: particleCount = 3000; it returns no sizes
SunPlasmaArrays ==
  [ positions |-> 3000 * 3, velocities |-> 3000 * 3, colors |-> 3000 * 3,
    count |-> 3000 ]

\* ------------------------------------------------- TextureManager (textures)
\* PLANET_CONFIGS: the texture kinds of each planet and whether it has a
\* cloud layer; the path of a texture is named by << planet, kind >>
PLANET_CONFIGS ==
  [ mercury |-> [textures |-> {"diffuse", "normal"}, clouds |-> FALSE],
    earth   |-> [textures |-> {"diffuse", "normal", "specular", "emissive", "clouds"},
                 clouds |-> TRUE],
    neptune |-> [textures |-> {"diffuse"}, clouds |-> FALSE] ]

\* Object.entries(textures), in the order of the configuration
KeyOrder == << "diffuse", "normal", "specular", "emissive", "clouds" >>

ConfigTextures(p) == PLANET_CONFIGS[p].textures \cap TextureKeys
TexturePaths == {<< p, k >> : p \in TexturedPlanets, k \in TextureKeys}

\* the kinds of ks in configuration order
RECURSIVE InOrder(_, _)
InOrder(ks, i) ==
  IF i > Len(KeyOrder) THEN << >>
  ELSE (IF KeyOrder[i] \in ks THEN << KeyOrder[i] >> ELSE << >>) \o InOrder(ks, i + 1)

\* textureMap.set(key, texture)
MapSet(m, key, texture) ==
  [k \in (DOMAIN m) \cup {key} |-> IF k = key THEN texture ELSE m[k]]

\* loadTexture: this.loadedTextures.has(path)
Cached(textures, path) == textures[path] # 0

\* The rest of loadMaterials once loadMultipleTextures has settled: the planet
\* material is made from textureMap, then createCloudMaterial loads the cloud
\* texture (from the cache, or by a new loader.load call numbered id).
\* Returns the load and the loader calls it makes.
AfterTextures(load, n, textures, id) ==
  LET p == load.planet
  IN IF load.waiting # {} THEN [load |-> load, calls |-> {}]
     ELSE IF ~(PLANET_CONFIGS[p].clouds /\ "clouds" \in PLANET_CONFIGS[p].textures)
     THEN [load |-> [load EXCEPT !.stage = "applied"], calls |-> {}]
     ELSE IF Cached(textures, << p, "clouds" >>)
     THEN [load |-> [load EXCEPT !.stage = "applied",
                                    !.clouds = textures[<< p, "clouds" >>]],
           calls |-> {}]
     ELSE [load |-> [load EXCEPT !.stage = "clouds"],
           calls |-> {[id |-> id, load |-> n, key |-> "clouds", for |-> "clouds"]}]

\* state of the page outside the scene's kinematics
\* --------------------------------------------- module-level resource caches
\* A texture or a geometry is named by the rank of its construction among
\* the resources of its kind; 0 is a missing cache entry.
NoEntry == 0

CacheOrder == << "earth", "moon" >>

RECURSIVE Preload(_, _, _, _)
\* preloadTextures: every key of planetTextures without an entry gets a texture
Preload(i, textures, loading, n) ==
  IF i > Len(CacheOrder) THEN [textures |-> textures, loading |-> loading, n |-> n]
  ELSE IF textures[CacheOrder[i]] # NoEntry
       THEN Preload(i + 1, textures, loading, n)
       ELSE Preload(i + 1, [textures EXCEPT ![CacheOrder[i]] = n + 1],
                    loading \cup {[key |-> CacheOrder[i], texture |-> n + 1]}, n + 1)

\* the values of a cache Record
Entries(cache) == {cache[k] : k \in DOMAIN cache} \ {NoEntry}

\* the caches once SolarSystem has mounted and its preloadTextures effect has run
InitCaches ==
  LET p == Preload(1, [k \in CacheKeys |-> NoEntry], {}, 0)
  IN /\ solarSystemMounted = TRUE
     /\ loadedTextures = p.textures
     /\ textureLoading = p.loading
     /\ disposedTextures = {}
     /\ sphereGeometries = [k \in SphereKeys |-> NoEntry]
     /\ ringGeometries = [k \in RingKeys |-> NoEntry]
     /\ disposedGeometries = {}
     /\ created = [texture |-> p.n, geometry |-> 0]
     /\ handedOut = [kind |-> "none", id |-> NoEntry, disposed |-> FALSE]

InitPage ==
  /\ particleData = [count |-> 0]
  /\ simulationDate = 0
  /\ simulatedDays = 0
  /\ managerTextures = [path \in TexturePaths |-> 0]
  /\ loaderLog = << >>
  /\ loaderRequests = {}
  /\ materialLoads = << >>
  /\ materialsEffectRan = {}
  /\ InitCaches

InitScene ==
  /\ isPlaying = TRUE
  /\ timeSpeed = 50
  /\ trailType = "classic"
  /\ trailLength = 2
  /\ viewMode = "solar-system"
  /\ selectedPlanet = Null
  /\ zoomTargetPlanet = Null
  /\ planetPositions = << >>
  /\ posDirty = FALSE
  /\ \E a0 \in InitAngles : angle = MountAngles(a0)
  /\ rAngle = angle
  /\ orbitPosition = [p \in Planets |-> Origin]
  /\ trailPositions = [p \in Planets |-> << >>]
  /\ cameraPosition = DefaultCameraPosition("solar-system")
  /\ controlsTarget = Origin
  /\ isZooming = FALSE
  /\ animations = << >>
  /\ now = 0
  /\ ideal = angle
  /\ phase = "initial"
  /\ zoomLog = << >>
  /\ settledOn = Null
  /\ motion = NoMotion
  /\ preInterrupt = NoMotion
  /\ rPosition = [p \in Planets |-> Origin]
  /\ satellitePosition = [s \in Satellites |-> Origin]
  /\ realisticRendering = FALSE
  /\ rotation = [p \in Planets |-> 0]
  /\ ambientFrames = 0

Init ==
  /\ InitScene
  /\ dust \in DustSpawns
  /\ wind \in WindSpawns
  /\ plasma \in PlasmaSpawns
  /\ InitPage

\* ---------------------------------------------------------------- actions
\* one browser frame: the useFrame callbacks, then the requested animateZoom calls
Frame(delta) ==
  LET t       == now + delta * MsPerSecond
      ticking == Ticking
      newAngle == [b \in Bodies |-> NewAngle(b, delta)]
      newPos  == [p \in Planets |-> OrbitPoint(newAngle[p], PlanetDistance(p))]
      r       == RunAnimations(animations, CameraNow(delta), t)
  IN /\ t <= MaxSeconds * MsPerSecond
     /\ now' = t
     /\ IF ticking
        THEN /\ angle' = newAngle
             /\ orbitPosition' = newPos
             /\ planetPositions' = SetPositions(planetPositions, newPos)
             /\ posDirty' = TRUE
             /\ trailPositions' =
                  [p \in Planets |->
                     IF trailType # "none" THEN NewTrail(trailPositions[p], newPos[p])
                     ELSE trailPositions[p]]
             /\ ideal' = [b \in Bodies |-> ideal[b] + delta * BodySpeed(b) * timeSpeed]
             /\ satellitePosition' =
                  [s \in Satellites |->
                     Plus(rPosition[ParentOf(s)],
                          OrbitPoint(newAngle[s], satelliteDatabase[s].distance))]
        ELSE UNCHANGED << angle, orbitPosition, trailPositions, planetPositions, ideal,
                          satellitePosition, posDirty >>
     /\ rotation' = IF Spinning
                     THEN [p \in Planets |-> rotation[p] + RotationIncrement(p, delta)]
                     ELSE rotation
     /\ phase' = CASE ticking /\ phase = "resumed" -> "running"
                  [] ticking /\ phase = "resumedHeld" -> "runningHeld"
                  [] Mounted /\ phase = "paused" -> "held"
                  [] OTHER -> phase
     /\ preInterrupt' = IF r.anims = <<>> THEN NoMotion ELSE preInterrupt
     /\ cameraPosition' = r.cam
     /\ controlsTarget' = r.tgt
     /\ isZooming' = (Mounted /\ r.zooming)
     /\ animations' = r.anims
     /\ zoomLog' = r.log
     /\ settledOn' = IF r.settled # Null /\ r.settled = zoomTargetPlanet
                     THEN r.settled ELSE settledOn
     /\ motion' = IF animations # <<>>
                  THEN [dist2 |-> DistanceSq(cameraPosition, r.cam), d |-> delta]
                  ELSE NoMotion
     /\ UNCHANGED << pageVars, homeVars, zoomTargetPlanet, rAngle, rPosition, ambientVars >>

\* the scheduler task that commits the updates queued by a frame
Render ==
  /\ posDirty \/ rAngle # angle
  /\ CommitZoom(zoomTargetPlanet, FALSE)
  /\ UNCHANGED << pageVars, homeVars, zoomTargetPlanet, bodyVars, now, phase, motion,
                  ambientVars >>

\* onClick={() => setIsPlaying(!isPlaying)}
TogglePlay ==
  /\ isPlaying' = ~isPlaying
  /\ phase' = IF isPlaying THEN "paused"
               ELSE IF phase = "held" THEN "resumedHeld" ELSE "resumed"
  /\ CommitZoom(zoomTargetPlanet, FALSE)
  /\ UNCHANGED << pageVars, realisticRendering, ambientVars,
                  timeSpeed, trailType, trailLength, viewMode, selectedPlanet,
                  zoomTargetPlanet, bodyVars, now, motion >>

SetTimeSpeed(v) ==
  /\ v # timeSpeed
  /\ timeSpeed' = v
  /\ CommitZoom(zoomTargetPlanet, FALSE)
  /\ UNCHANGED << pageVars, realisticRendering, ambientVars,
                  isPlaying, trailType, trailLength, viewMode, selectedPlanet,
                  zoomTargetPlanet, bodyVars, now, phase, motion >>

\* a style change that also drops what every planet has recorded
SetTrailTypeClearingHistory(v) ==
  /\ Mounted
  /\ v # trailType
  /\ trailType' = v
  /\ trailPositions' = [p \in Planets |-> << >>]
  /\ CommitZoom(zoomTargetPlanet, FALSE)
  /\ UNCHANGED << pageVars, realisticRendering, ambientVars,
                  isPlaying, timeSpeed, trailLength, viewMode, selectedPlanet,
                  zoomTargetPlanet, angle, orbitPosition, planetPositions, ideal,
                  satellitePosition, rotation, now, phase, motion >>

\* <Select value={trailType} onValueChange={setTrailType}>
SetTrailType(v) ==
  /\ Mounted
  /\ v # trailType
  /\ trailType' = v
  /\ CommitZoom(zoomTargetPlanet, FALSE)
  /\ UNCHANGED << pageVars, realisticRendering, ambientVars,
                  isPlaying, timeSpeed, trailLength, viewMode, selectedPlanet,
                  zoomTargetPlanet, bodyVars, now, phase, motion >>

SetTrailLength(v) ==
  /\ Mounted
  /\ v # trailLength
  /\ trailLength' = v
  /\ CommitZoom(zoomTargetPlanet, FALSE)
  /\ UNCHANGED << pageVars, realisticRendering, ambientVars,
                  isPlaying, timeSpeed, trailType, viewMode, selectedPlanet,
                  zoomTargetPlanet, bodyVars, now, phase, motion >>

\* setViewMode, the remount of the scene's planets, the Scene camera effect
\* and the SolarSystem effect setZoomTargetPlanet(null)
SetViewMode(m) ==
  /\ m # viewMode
  /\ viewMode' = m
  /\ zoomTargetPlanet' = TargetAfterViewMode
  /\ cameraPosition' = DefaultCameraPosition(m)
  /\ isZooming' = FALSE
  /\ IF m = "solar-system"
     THEN \E a0 \in InitAngles : angle' = MountAngles(a0)
     ELSE angle' = [b \in Bodies |-> 0]
  /\ rAngle' = angle'
  /\ ideal' = angle'
  /\ orbitPosition' = [p \in Planets |-> Origin]
  /\ trailPositions' = [p \in Planets |-> << >>]
  /\ posDirty' = FALSE
  /\ zoomLog' = << >>
  /\ settledOn' = Null
  /\ preInterrupt' = NoMotion
  /\ rPosition' = [p \in Planets |-> Origin]
  /\ satellitePosition' = [s \in Satellites |-> Origin]
  /\ rotation' = [p \in Planets |-> 0]
  /\ IF m = "solar-system"
     THEN wind' \in WindSpawns /\ plasma' \in PlasmaSpawns
     ELSE UNCHANGED << wind, plasma >>
  /\ materialsEffectRan' = {}
  /\ UNCHANGED << particleData, dateVars, cacheVars, loaderVars,
                  realisticRendering, dust, ambientFrames, isPlaying, timeSpeed,
                  trailType, trailLength, selectedPlanet,
                  planetPositions, controlsTarget, animations, now, phase, motion >>

\* SolarSystem.handleCelestialSelect
SelectBody(id) ==
  /\ selectedPlanet' = id
  /\ IF viewMode = "galaxy-cluster"
     THEN /\ id \in Galaxies
          /\ UNCHANGED zoomTargetPlanet
          /\ CommitZoom(zoomTargetPlanet, FALSE)
     ELSE /\ id \notin Galaxies
          /\ zoomTargetPlanet' = id
          /\ CommitZoom(id, id # zoomTargetPlanet)
  /\ UNCHANGED << pageVars, realisticRendering, ambientVars,
                  isPlaying, timeSpeed, trailType, trailLength, viewMode,
                  bodyVars, now, phase, motion >>

\* Legend onPlanetDeselect
Deselect ==
  /\ selectedPlanet # Null
  /\ selectedPlanet' = Null
  /\ CommitZoom(zoomTargetPlanet, FALSE)
  /\ UNCHANGED << pageVars, realisticRendering, ambientVars,
                  isPlaying, timeSpeed, trailType, trailLength, viewMode,
                  zoomTargetPlanet, bodyVars, now, phase, motion >>

\* the realistic-rendering switch: every planet's mesh is replaced
SetRealisticRendering ==
  /\ Mounted
  /\ realisticRendering' = ~realisticRendering
  /\ rotation' = [p \in Planets |-> 0]
  /\ CommitZoom(zoomTargetPlanet, FALSE)
  /\ materialsEffectRan' = {}
  /\ UNCHANGED << particleData, dateVars, cacheVars, loaderVars,
                  isPlaying, timeSpeed, trailType, trailLength, viewMode, selectedPlanet,
                  zoomTargetPlanet, angle, orbitPosition, trailPositions,
                  planetPositions, ideal, satellitePosition, now, phase, motion,
                  ambientVars >>

\* one frame of the particle fields (CosmicDust, SolarWind, SunPlasma useFrame).
\* They read nothing of the scene's state but whether the Sun is mounted, and
\* nothing of the scene reads them, so their frame is a step of its own.
AmbientFrame ==
  /\ ambientFrames < MaxAmbientFrames
  /\ ambientFrames' = ambientFrames + 1
  /\ dust' = DustStep(dust, ambientFrames)
  /\ IF Mounted
     THEN /\ \E fresh \in WindSpawns : wind' = WindStep(wind, fresh)
          /\ \E fresh \in PlasmaSpawns : plasma' = PlasmaStep(plasma, ambientFrames, fresh)
     ELSE UNCHANGED << wind, plasma >>
  /\ UNCHANGED << pageVars, homeVars, zoomTargetPlanet, bodyVars, posDirty, rAngle, rPosition,
                  cameraVars, now, phase, zoomLog, settledOn, motion, preInterrupt >>

Next ==
  \/ \E delta \in Deltas : Frame(delta)
  \/ Render
  \/ TogglePlay
  \/ \E v \in TimeSpeeds : SetTimeSpeed(v)
  \/ \E v \in TrailTypes : SetTrailType(v)
  \/ \E v \in TrailLengths : SetTrailLength(v)
  \/ \E m \in {"solar-system", "galaxy-cluster"} : SetViewMode(m)
  \/ \E id \in Bodies \cup Galaxies : SelectBody(id)
  \/ Deselect
  \/ SetRealisticRendering
  \/ AmbientFrame

Spec == Init /\ [][Next]_vars

\* the scene with the camera left alone: kinematics and trails
NextOrbit ==
  \/ \E delta \in Deltas : Frame(delta)
  \/ Render
  \/ TogglePlay
  \/ \E v \in TimeSpeeds : SetTimeSpeed(v)
  \/ \E v \in TrailTypes : SetTrailType(v)
  \/ \E v \in TrailLengths : SetTrailLength(v)
  \/ \E m \in {"solar-system", "galaxy-cluster"} : SetViewMode(m)

SpecOrbit == Init /\ [][NextOrbit]_vars

\* the playing scene with only planets and galaxies clicked: camera focus
NextFocus ==
  \/ \E delta \in Deltas : Frame(delta)
  \/ Render
  \/ \E m \in {"solar-system", "galaxy-cluster"} : SetViewMode(m)
  \/ \E id \in FocusTargets \cup Galaxies : SelectBody(id)

SpecFocus == Init /\ [][NextFocus]_vars

\* the playing scene with every kind of body clicked: planets, satellites, the Sun
NextSelect ==
  \/ \E delta \in Deltas : Frame(delta)
  \/ Render
  \/ \E id \in Bodies \cup {"sun"} : SelectBody(id)

SpecSelect == Init /\ [][NextSelect]_vars

\* The scene once its first frame of delta seconds has run and been committed:
\* every planet of planetData has reported its position to the Scene, the
\* planets of Planets being the ones whose later frames are followed.
SceneAfterFirstFrame(delta) ==
  LET a0  == CHOOSE a \in InitAngles : TRUE
      a1  == [b \in Bodies |-> a0 + delta * BodySpeed(b) * 50]
      pos == [p \in DOMAIN planetData |->
                OrbitPoint(a0 + delta * planetData[p].speed * 50, planetData[p].distance)]
  IN /\ isPlaying = TRUE
     /\ timeSpeed = 50
     /\ trailType = "classic"
     /\ trailLength = 2
     /\ viewMode = "solar-system"
     /\ selectedPlanet = Null
     /\ zoomTargetPlanet = Null
     /\ planetPositions = pos
     /\ posDirty = FALSE
     /\ angle = a1
     /\ rAngle = a1
     /\ orbitPosition = [p \in Planets |-> pos[p]]
     /\ trailPositions = [p \in Planets |-> << pos[p] >>]
     /\ cameraPosition = DefaultCameraPosition("solar-system")
     /\ controlsTarget = Origin
     /\ isZooming = FALSE
     /\ animations = << >>
     /\ now = delta * MsPerSecond
     /\ ideal = a1
     /\ phase = "initial"
     /\ zoomLog = << >>
     /\ settledOn = Null
     /\ motion = NoMotion
     /\ preInterrupt = NoMotion
     /\ rPosition = [p \in Planets |-> pos[p]]
     /\ satellitePosition =
          [s \in Satellites |-> OrbitPoint(a1[s], satelliteDatabase[s].distance)]
     /\ realisticRendering = FALSE
     /\ rotation = [p \in Planets |-> delta * rotationSpeed[p] * 50]
     /\ ambientFrames = 0

InitOffset ==
  /\ \E delta \in Deltas : SceneAfterFirstFrame(delta)
  /\ dust \in DustSpawns
  /\ wind \in WindSpawns
  /\ plasma \in PlasmaSpawns
  /\ InitPage

\* The particle fields in flight. Dust is created anywhere in its box, here
\* within one step of a face; a wind particle created on the emission surface
\* with a radial velocity has flown to within two steps of the limit radius
\* (333 + 1433 * 5, 390 + 2369 * 3) or half way (330 + 734 * 5).
DustInFlight ==
  { [pos |-> << x, y, z >>, vel |-> << 3, 3, 0 - 3 >>, phase |-> ph] :
      x \in {2499998, 0 - 2499996}, y \in {999997, 0 - 999995},
      z \in {0 - 2499999}, ph \in {0, 1, 2, 3} }
WindInFlight ==
  { [pos |-> << 7498, 0, 0 >>, vel |-> << 5, 0, 0 >>],
    [pos |-> << 0, 0, 0 - 7497 >>, vel |-> << 0, 0, 0 - 3 >>],
    [pos |-> << 4000, 0, 0 >>, vel |-> << 5, 0, 0 >>] }

InitParticles ==
  /\ InitScene
  /\ dust \in DustInFlight
  /\ wind \in WindInFlight
  /\ plasma \in PlasmaSpawns
  /\ InitPage

NextParticles ==
  \/ AmbientFrame
  \/ TogglePlay

SpecParticles == InitParticles /\ [][NextParticles]_vars

\* RealisticPlanet: the effect that calls loadMaterials, once for each mount.
\* loadMultipleTextures calls loadTexture for every kind at once: a cached path
\* is taken from the cache, any other path is handed to loader.load.
StartLoadMaterials(p) ==
  LET keys    == ConfigTextures(p)
      cached  == {k \in keys : Cached(managerTextures, << p, k >>)}
      toLoad  == InOrder(keys \ cached, 1)
      n       == Len(materialLoads) + 1
      first   == Len(loaderLog)
      started == [ planet |-> p, stage |-> "textures",
                   textureMap |-> [k \in cached |-> managerTextures[<< p, k >>]],
                   waiting |-> keys \ cached, clouds |-> 0 ]
      issued  == {[id |-> first + i, load |-> n, key |-> toLoad[i], for |-> "map"] :
                    i \in 1 .. Len(toLoad)}
      log1    == loaderLog \o [i \in 1 .. Len(toLoad) |-> << p, toLoad[i] >>]
      next    == AfterTextures(started, n, managerTextures, Len(log1) + 1)
  IN /\ Mounted
     /\ realisticRendering
     /\ p \in TexturedPlanets
     /\ p \notin materialsEffectRan
     /\ n <= MaxLoads
     /\ materialsEffectRan' = materialsEffectRan \cup {p}
     /\ materialLoads' = Append(materialLoads, next.load)
     /\ loaderRequests' = loaderRequests \cup issued \cup next.calls
     /\ loaderLog' = log1 \o [i \in 1 .. Cardinality(next.calls) |-> << p, "clouds" >>]
     /\ UNCHANGED << managerTextures, particleData, dateVars, cacheVars,
                     homeVars, zoomTargetPlanet, bodyVars, posDirty, rAngle, rPosition,
                     cameraVars, now, phase, zoomLog, settledOn, motion, preInterrupt,
                     ambientVars >>

\* the loader's onLoad callback of request r: the texture enters the cache and
\* the promise resolves
LoaderSucceeds(r) ==
  LET path     == loaderLog[r.id]
      textures == [managerTextures EXCEPT ![path] = r.id]
      load     == materialLoads[r.load]
      got      == IF r.for = "clouds"
                  THEN [load |-> [load EXCEPT !.stage = "applied", !.clouds = r.id],
                        calls |-> {}]
                  ELSE AfterTextures(
                         [load EXCEPT !.textureMap = MapSet(load.textureMap, r.key, r.id),
                                      !.waiting = load.waiting \ {r.key}],
                         r.load, textures, Len(loaderLog) + 1)
  IN /\ r \in loaderRequests
     /\ managerTextures' = textures
     /\ materialLoads' = [materialLoads EXCEPT ![r.load] = got.load]
     /\ loaderRequests' = (loaderRequests \ {r}) \cup got.calls
     /\ loaderLog' = loaderLog \o [i \in 1 .. Cardinality(got.calls) |->
                                     << load.planet, "clouds" >>]
     /\ UNCHANGED << materialsEffectRan, particleData, dateVars, cacheVars,
                     homeVars, zoomTargetPlanet, bodyVars, posDirty, rAngle, rPosition,
                     cameraVars, now, phase, zoomLog, settledOn, motion, preInterrupt,
                     ambientVars >>

\* the loader's onError callback of request r: the promise rejects.
\* loadMultipleTextures catches it; createCloudMaterial does not, and the
\* rejection reaches the catch of loadMaterials, which skips setMaterials.
LoaderFails(r) ==
  LET load == materialLoads[r.load]
      got  == IF r.for = "clouds"
              THEN [load |-> [load EXCEPT !.stage = "dropped"], calls |-> {}]
              ELSE AfterTextures([load EXCEPT !.waiting = load.waiting \ {r.key}],
                                 r.load, managerTextures, Len(loaderLog) + 1)
  IN /\ r \in loaderRequests
     /\ materialLoads' = [materialLoads EXCEPT ![r.load] = got.load]
     /\ loaderRequests' = (loaderRequests \ {r}) \cup got.calls
     /\ loaderLog' = loaderLog \o [i \in 1 .. Cardinality(got.calls) |->
                                     << load.planet, "clouds" >>]
     /\ UNCHANGED << managerTextures, materialsEffectRan, particleData, dateVars, cacheVars,
                     homeVars, zoomTargetPlanet, bodyVars, posDirty, rAngle, rPosition,
                     cameraVars, now, phase, zoomLog, settledOn, motion, preInterrupt,
                     ambientVars >>

\* realistic rendering switched on and off while textures load
NextTextures ==
  \/ SetRealisticRendering
  \/ \E p \in TexturedPlanets : StartLoadMaterials(p)
  \/ \E r \in loaderRequests : LoaderSucceeds(r)
  \/ \E r \in loaderRequests : LoaderFails(r)

SpecTextures == Init /\ [][NextTextures]_vars

\* Date.prototype.setDate(day): the day of the month is ToIntegerOrInfinity(day),
\* so the fraction of a day is dropped (days are non-negative here)
SetDate(date, day) == date + day \div 10

\* the callback of Home's setInterval(..., 100), which runs while isPlaying:
\* newDate.setDate(newDate.getDate() + timeSpeed), then the commit of Home
DateTick ==
  /\ isPlaying
  /\ simulatedDays + timeSpeed <= MaxDays * 10
  /\ simulationDate' = SetDate(simulationDate, timeSpeed)
  /\ simulatedDays' = simulatedDays + timeSpeed
  /\ CommitZoom(zoomTargetPlanet, FALSE)
  /\ UNCHANGED << particleData, textureVars, cacheVars, homeVars, zoomTargetPlanet,
                  bodyVars, now, phase, motion, ambientVars >>

\* the simulated date with the time-speed slider moved and playback toggled
NextDate ==
  \/ DateTick
  \/ TogglePlay
  \/ \E v \in SliderSpeeds : SetTimeSpeed(v)

SpecDate == Init /\ [][NextDate]_vars

\* the scene's variables, which the cache operations leave alone
sceneVars == << homeVars, zoomTargetPlanet, bodyVars, posDirty, rAngle, rPosition,
                cameraVars, now, phase, zoomLog, settledOn, motion, preInterrupt,
                ambientVars, particleData, dateVars, textureVars >>

\* getTexture(key), called by createSafeMaterial / createSafeBasicMaterial
\* while a material of the mounted scene is built
GetTexture(key) ==
  /\ solarSystemMounted
  /\ IF loadedTextures[key] # NoEntry
     THEN /\ handedOut' = [kind |-> "texture", id |-> loadedTextures[key],
                           disposed |-> loadedTextures[key] \in disposedTextures]
          /\ UNCHANGED << loadedTextures, textureLoading, created >>
     ELSE /\ created.texture < MaxResources
          /\ created' = [created EXCEPT !.texture = @ + 1]
          /\ loadedTextures' = [loadedTextures EXCEPT ![key] = created.texture + 1]
          /\ textureLoading' =
               textureLoading \cup {[key |-> key, texture |-> created.texture + 1]}
          /\ handedOut' = [kind |-> "texture", id |-> created.texture + 1,
                           disposed |-> FALSE]
  /\ UNCHANGED << solarSystemMounted, disposedTextures, sphereGeometries,
                  ringGeometries, disposedGeometries, sceneVars >>

\* the onLoad callback of a textureLoader.load call
TextureLoaded(r) ==
  /\ r \in textureLoading
  /\ textureLoading' = textureLoading \ {r}
  /\ UNCHANGED << solarSystemMounted, loadedTextures, disposedTextures,
                  sphereGeometries, ringGeometries, disposedGeometries, created,
                  handedOut, sceneVars >>

\* the onError callback of a textureLoader.load call: delete loadedTextures[key]
TextureLoadFails(r) ==
  /\ r \in textureLoading
  /\ textureLoading' = textureLoading \ {r}
  /\ loadedTextures' = [loadedTextures EXCEPT ![r.key] = NoEntry]
  /\ UNCHANGED << solarSystemMounted, disposedTextures, sphereGeometries,
                  ringGeometries, disposedGeometries, created, handedOut, sceneVars >>

\* GeometryManager.getSphereGeometry for the radius and LOD level of key
GetSphereGeometry(key) ==
  /\ solarSystemMounted
  /\ IF sphereGeometries[key] # NoEntry
     THEN /\ handedOut' = [kind |-> "geometry", id |-> sphereGeometries[key],
                           disposed |-> sphereGeometries[key] \in disposedGeometries]
          /\ UNCHANGED << sphereGeometries, created >>
     ELSE /\ created.geometry < MaxResources
          /\ created' = [created EXCEPT !.geometry = @ + 1]
          /\ sphereGeometries' = [sphereGeometries EXCEPT ![key] = created.geometry + 1]
          /\ handedOut' = [kind |-> "geometry", id |-> created.geometry + 1,
                           disposed |-> FALSE]
  /\ UNCHANGED << solarSystemMounted, loadedTextures, textureLoading, disposedTextures,
                  ringGeometries, disposedGeometries, sceneVars >>

\* GeometryManager.getRingGeometry
GetRingGeometry(key) ==
  /\ solarSystemMounted
  /\ IF ringGeometries[key] # NoEntry
     THEN /\ handedOut' = [kind |-> "geometry", id |-> ringGeometries[key],
                           disposed |-> ringGeometries[key] \in disposedGeometries]
          /\ UNCHANGED << ringGeometries, created >>
     ELSE /\ created.geometry < MaxResources
          /\ created' = [created EXCEPT !.geometry = @ + 1]
          /\ ringGeometries' = [ringGeometries EXCEPT ![key] = created.geometry + 1]
          /\ handedOut' = [kind |-> "geometry", id |-> created.geometry + 1,
                           disposed |-> FALSE]
  /\ UNCHANGED << solarSystemMounted, loadedTextures, textureLoading, disposedTextures,
                  sphereGeometries, disposedGeometries, sceneVars >>

\* SolarSystem unmounts: the cleanup of its last effect.  GeometryManager.cleanup
\* disposes the geometries and empties both caches; the textures are disposed
\* and stay in loadedTextures.
UnmountSolarSystem ==
  /\ solarSystemMounted
  /\ solarSystemMounted' = FALSE
  /\ disposedGeometries' =
       disposedGeometries \cup Entries(sphereGeometries) \cup Entries(ringGeometries)
  /\ sphereGeometries' = [k \in SphereKeys |-> NoEntry]
  /\ ringGeometries' = [k \in RingKeys |-> NoEntry]
  /\ disposedTextures' = disposedTextures \cup Entries(loadedTextures)
  /\ UNCHANGED << loadedTextures, textureLoading, created, handedOut, sceneVars >>

\* SolarSystem mounts again: useEffect(() => { preloadTextures() }, [])
MountSolarSystem ==
  LET p == Preload(1, loadedTextures, textureLoading, created.texture)
  IN /\ ~solarSystemMounted
     /\ p.n <= MaxResources
     /\ solarSystemMounted' = TRUE
     /\ loadedTextures' = p.textures
     /\ textureLoading' = p.loading
     /\ created' = [created EXCEPT !.texture = p.n]
     /\ UNCHANGED << disposedTextures, sphereGeometries, ringGeometries,
                     disposedGeometries, handedOut, sceneVars >>

\* the page left and entered again while textures load and materials are built
NextCaches ==
  \/ \E key \in CacheKeys : GetTexture(key)
  \/ \E r \in textureLoading : TextureLoaded(r)
  \/ \E r \in textureLoading : TextureLoadFails(r)
  \/ \E key \in SphereKeys : GetSphereGeometry(key)
  \/ \E key \in RingKeys : GetRingGeometry(key)
  \/ UnmountSolarSystem
  \/ MountSolarSystem

SpecCaches == Init /\ [][NextCaches]_vars

\* a particle field is generated when its component mounts (useMemo)
GenerateGalaxy(type, size) ==
  /\ particleData' = GalaxyParticleData(type, size)
  /\ UNCHANGED << homeVars, zoomTargetPlanet, bodyVars, posDirty, rAngle, rPosition,
                  cameraVars, now, phase, zoomLog, settledOn, motion, preInterrupt,
                  ambientVars, dateVars, cacheVars, textureVars >>

GenerateAmbient(arrays) ==
  /\ particleData' = arrays
  /\ UNCHANGED << homeVars, zoomTargetPlanet, bodyVars, posDirty, rAngle, rPosition,
                  cameraVars, now, phase, zoomLog, settledOn, motion, preInterrupt,
                  ambientVars, dateVars, cacheVars, textureVars >>

NextGenerators ==
  \/ \E type \in GalaxyTypes, size \in GalaxySizes : GenerateGalaxy(type, size)
  \/ \E arrays \in {CosmicDustArrays, SolarWindArrays, SunPlasmaArrays} :
       GenerateAmbient(arrays)

SpecGenerators == Init /\ [][NextGenerators]_vars

\* planets clicked once all of them have reported a position
NextOffset ==
  \/ \E delta \in Deltas : Frame(delta)
  \/ \E id \in OffsetTargets : SelectBody(id)

SpecOffset == InitOffset /\ [][NextOffset]_vars

\* play / pause with the rendering mode switched: self-rotation
NextSpin ==
  \/ \E delta \in Deltas : Frame(delta)
  \/ Render
  \/ TogglePlay
  \/ SetRealisticRendering

SpecSpin == Init /\ [][NextSpin]_vars

\* play / pause with a planet clicked and the particle fields running
NextAmbient ==
  \/ \E delta \in Deltas : Frame(delta)
  \/ Render
  \/ TogglePlay
  \/ \E id \in PauseTargets : SelectBody(id)
  \/ AmbientFrame

SpecAmbient == Init /\ [][NextAmbient]_vars

\* planets clicked, deselected from the legend and clicked again, playing or paused
NextReselect ==
  \/ \E delta \in Deltas : Frame(delta)
  \/ Render
  \/ TogglePlay
  \/ \E id \in PauseTargets : SelectBody(id)
  \/ Deselect

SpecReselect == Init /\ [][NextReselect]_vars

\* the browser keeps delivering animation frames while the page is shown
\* (the guard and the clock update of Frame: a frame is the only step that
\* moves the clock, and one can run whenever the clock is below its bound)
FrameClock(delta) ==
  /\ now + delta * MsPerSecond <= MaxSeconds * MsPerSecond
  /\ now' = now + delta * MsPerSecond

FrameFairness == WF_now(\E delta \in Deltas : FrameClock(delta))

SpecTerminate == Init /\ [][NextReselect]_vars /\ FrameFairness

\* ================================================================ claims
\* the increment of one tick of body b over the step's elapsed time
StepIncrement(b) == ((now' - now) \div MsPerSecond) * BodySpeed(b) * timeSpeed

\* ------------------------------------------------------------------- C1
\* C1: for every planet and satellite, while isPlaying is false no step of
\* the scene (a frame tick, a time-speed change, the toggle itself) changes
\* the orbital angle, and between the resume and the first tick after it the
\* angle is still the one held at the pause; that first tick adds exactly one
\* tick's increment to it.  A body remounted by a view switch is a new body
\* (it draws a new initial angle), so steps that change viewMode are excluded.
C1_PauseResumeAngle ==
  [][ /\ (~isPlaying /\ viewMode' = viewMode) => angle' = angle
      /\ (phase \in {"resumed", "resumedHeld"} /\ viewMode' = viewMode)
           => IF now' # now /\ Ticking
              THEN \A b \in Bodies : angle'[b] = angle[b] + StepIncrement(b)
              ELSE angle' = angle ]_vars

\* a body paused after a tick, held through a paused frame, resumed and ticked
C1_Witness ==
  /\ phase = "runningHeld"
  /\ isPlaying /\ Mounted
  /\ angle["moon"] >= 400000

\* ------------------------------------------------------------------- C2
\* C2: while playing, the angle of every body after any sequence of ticks is
\* its initial angle plus the sum of the ticks' increments (the angle one
\* tick over the summed deltas would give).
C2_FrameRateIndependent == \A b \in Bodies : angle[b] = ideal[b]

\* ------------------------------------------------------------------- C3
\* C3 as stated: after every frame tick of the mounted scene, playing or
\* paused, every planet's trail has at most trailLength entries.
C3_TrailBoundedAfterEveryTick ==
  [][ (now' # now /\ Mounted)
        => \A p \in Planets : Len(trailPositions'[p]) <= trailLength' ]_vars

\* C3 amended: after every frame tick on which isPlaying is true and the trail
\* style is not 'none', every planet's trail has at most trailLength entries.
C3_TrailBoundedAfterRecordingTick ==
  [][ (now' # now /\ Ticking /\ trailType # "none")
        => \A p \in Planets : Len(trailPositions'[p]) <= trailLength' ]_vars

\* a trail cut to one entry although mercury has ticked for three seconds' worth
C3_Witness ==
  /\ isPlaying /\ Mounted /\ trailType # "none"
  /\ trailLength = 1
  /\ Len(trailPositions["mercury"]) = 1
  /\ trailPositions["mercury"][1] = orbitPosition["mercury"]
  /\ ideal["mercury"] >= 200000 + 3 * 50 * BodySpeed("mercury")

\* ------------------------------------------------------------------- C4
\* C4: in every animateZoom step of a focus, at progress 0 (the step the
\* effect runs itself) the camera position written is the captured start
\* position, and at progress 1 the look-at target written is the planet's live
\* position (orbitRef.current.position) at that instant.
C4_FocusEndpoints ==
  \A i \in 1..Len(zoomLog) :
    /\ zoomLog[i].d = 0 => zoomLog[i].cam = zoomLog[i].start
    /\ (Mounted /\ zoomLog[i].done)
         => zoomLog[i].look = orbitPosition[zoomLog[i].target]

\* ------------------------------------------------------------------- C5
\* C5: after a focus is started on another body while an animation is in
\* flight, no animateZoom step moves the camera away from the previously
\* written position faster than the camera moved in the frame before the
\* restart (distance / delta compared as squares).
C5_NoTeleport ==
  preInterrupt.d > 0 =>
    \A i \in 1..Len(zoomLog) :
      zoomLog[i].d > 0 =>
        DistanceSq(zoomLog[i].from, zoomLog[i].cam) * preInterrupt.d * preInterrupt.d
          <= preInterrupt.dist2 * zoomLog[i].d * zoomLog[i].d

\* ------------------------------------------------------------------- C6
\* C6: whenever a focus animation is started while an earlier one is still in
\* flight, its start camera position and start look-at target are the camera
\* position and the orbit target at the moment of the request.
C6_RestartFromCurrentPose ==
  [][ (animations # << >> /\ Len(animations') > Len(animations))
        => /\ animations'[Len(animations')].startPosition = cameraPosition
           /\ animations'[Len(animations')].startTarget = controlsTarget ]_vars

\* two loops in flight, the second for another body, started later and from
\* another pose than the first
C6_Witness ==
  /\ Len(animations) = 2
  /\ animations[2].target # animations[1].target
  /\ animations[2].startTime > animations[1].startTime
  /\ animations[2].startPosition # animations[1].startPosition
  /\ animations[2].startTarget # animations[1].startTarget

\* ------------------------------------------------------------------- C7
\* C7: in every animateZoom step taken in a frame of the mounted, playing
\* scene, the destination the step interpolates towards is the planet's
\* position at that step.
C7_DestinationTracksBody ==
  Mounted =>
    \A i \in 1..Len(zoomLog) :
      zoomLog[i].d > 0 => zoomLog[i].dest = orbitPosition[zoomLog[i].target]

\* ------------------------------------------------------------------- C8
\* C8: once the focus animation on the target has completed, while the target
\* stays set no new animateZoom loop is started and after every frame the
\* look-at target is the focused planet's live position.
C8_FollowAfterSettling ==
  [][ (settledOn # Null /\ Mounted /\ zoomTargetPlanet = settledOn
         /\ zoomTargetPlanet' = zoomTargetPlanet)
        => /\ Len(animations') <= Len(animations)
           /\ now' # now => controlsTarget' = orbitPosition'[settledOn] ]_vars

\* ------------------------------------------------------------------- C9
\* C9: the step that clears the focus target leaves the camera at the default
\* position of the view and the orbit target at the origin, and while the
\* target is null no frame writes the camera position or the orbit target.
\* (resetView is run only by the resetViewTrigger effect, and Home passes no
\* trigger: the target is cleared by the viewMode effect.)
C9_ClearFocusResets ==
  [][ /\ (zoomTargetPlanet # Null /\ zoomTargetPlanet' = Null)
           => /\ cameraPosition' = DefaultCameraPosition(viewMode')
              /\ controlsTarget' = Origin
      /\ (zoomTargetPlanet = Null /\ zoomTargetPlanet' = Null /\ now' # now)
           => UNCHANGED << cameraPosition, controlsTarget >> ]_vars

Resolvable(id) == id \in DOMAIN planetData /\ id \in DOMAIN planetPositions

\* C11: a focus request for a body the controller cannot resolve leaves the
\* camera position, the orbit target, isZooming and the running loops as they
\* were, and a request that started no loop starts none later while the
\* target stays the same.
C11_UnresolvedFocusIsNoOp ==
  [][ /\ (zoomTargetPlanet' # zoomTargetPlanet /\ zoomTargetPlanet' # Null
            /\ ~Resolvable(zoomTargetPlanet'))
           => UNCHANGED << cameraPosition, controlsTarget, isZooming, animations >>
      /\ (zoomTargetPlanet' = zoomTargetPlanet /\ Mounted /\ isZooming
            /\ animations = << >>)
           => animations' = << >> ]_vars


\* ------------------------------------------------------------------ C12
SatelliteAroundParent(s, parentPosition, a) ==
  Plus(parentPosition[ParentOf(s)], OrbitPoint(a[s], satelliteDatabase[s].distance))

\* C12: on every tick each moon is placed at its parent's position of the same
\* frame plus (cos a * d, 0, sin a * d), a being the moon's new angle.
C12_MoonFollowsParentOfSameFrame ==
  [][ (now' # now /\ Ticking)
        => \A s \in Satellites :
             satellitePosition'[s] = SatelliteAroundParent(s, orbitPosition', angle') ]_vars



\* ------------------------------------------------------------------ C13
\* C13: a change of the trail style leaves the history every planet has
\* stored as it was, the same entries in the same order.
C13_StyleChangeKeepsHistory ==
  [][ trailType' # trailType => trailPositions' = trailPositions ]_vars

\* the style was switched to 'none', which records nothing, and the history
\* recorded before the switch is still stored
C13_Witness ==
  /\ Mounted
  /\ trailType = "none"
  /\ \E p \in Planets : trailPositions[p] # << >>

\* ------------------------------------------------------------------ C14
\* if (trailType === 'none' || trailPositions.length < 2) return null
Drawn(p) ==
  IF trailType = "none" \/ Len(trailPositions[p]) < 2 THEN << >> ELSE trailPositions[p]

\* C14: once the trail is switched off the history of every planet is empty,
\* so that nothing recorded before the switch can be drawn afterwards.
C14_HistoryEmptyWhileOff ==
  (Mounted /\ trailType = "none") => \A p \in Planets : trailPositions[p] = << >>



\* ------------------------------------------------------------------ C15
\* the history of p after a recording tick: the new position first, then the
\* previous entries in their previous order, cut at the maximum
RecordedOnTick(p) ==
  LET old == trailPositions[p]
      new == trailPositions'[p]
  IN /\ Len(new) = Min(Len(old) + 1, trailLength)
     /\ new[1] = orbitPosition'[p]
     /\ \A i \in 2..Len(new) : new[i] = old[i - 1]

\* C15: the history of a planet changes only on a tick that runs while
\* playing with a style other than 'none', and on such a tick the new
\* position becomes the first entry, followed by the previous entries up to
\* the maximum; a tick while paused or with the style 'none', and every
\* control that leaves the scene mounted, keep the history as it was.
C15_RecordingOnlyOnPlayingTick ==
  [][ /\ (now' # now /\ Ticking /\ trailType # "none")
          => \A p \in Planets : RecordedOnTick(p)
      /\ (now' # now /\ ~(Ticking /\ trailType # "none"))
          => trailPositions' = trailPositions
      /\ (now' = now /\ viewMode' = viewMode)
          => trailPositions' = trailPositions ]_vars

\* a recording tick has put a new position in front of an earlier, different one
C15_Witness ==
  /\ Ticking
  /\ trailType # "none"
  /\ \E p \in Planets :
        /\ Len(trailPositions[p]) = 2
        /\ trailPositions[p][1] = orbitPosition[p]
        /\ trailPositions[p][2] # trailPositions[p][1]



\* ------------------------------------------------------------------ C16
\* the loop requested last, whose pose is the one the frame leaves behind
LastAnimation == animations[Len(animations)]

\* C16: while playback is paused every browser frame still advances the focus
\* animation in flight (the camera takes the pose of the time elapsed since
\* the animation started, never farther from its destination than before, and
\* reaches it and ends the loop once the duration has elapsed) and every frame of the
\* particle fields still moves the dust, the solar wind and the sun plasma,
\* while no orbital angle changes.
C16_PauseFreezesOnlyOrbits ==
  [][ (~isPlaying /\ ~isPlaying')
        => /\ angle' = angle
           /\ (now' # now /\ animations # << >>)
                => LET a == LastAnimation
                   IN /\ cameraPosition' = AnimateZoom(a, now').cam
                      /\ DistanceSq(cameraPosition', a.targetCameraPosition)
                           <= DistanceSq(cameraPosition, a.targetCameraPosition)
                      /\ (now' - a.startTime >= Duration)
                           => /\ cameraPosition' = a.targetCameraPosition
                              /\ \A i \in 1..Len(animations') : animations'[i] # a
           /\ (ambientFrames' # ambientFrames)
                => /\ dust'.pos # dust.pos
                   /\ Mounted => (wind'.pos # wind.pos /\ plasma'.pos # plasma.pos) ]_vars

\* paused, the last frame of the pause having moved the camera to the end of
\* its focus animation, particle fields that have moved, planets where they were
C16_Witness ==
  /\ Mounted
  /\ ~isPlaying
  /\ phase = "held"
  /\ rAngle = angle
  /\ settledOn # Null
  /\ animations = << >>
  /\ motion.dist2 > 0
  /\ ambientFrames > 0
  /\ dust.pos # << 0, 0, 0 >>



\* ------------------------------------------------------------------ C17
\* C17: a frame tick while playback is paused advances the self-rotation of
\* no planet, with the standard meshes and with RealisticPlanet alike.
C17_NoSpinWhilePaused ==
  [][ (now' # now /\ ~isPlaying) => rotation' = rotation ]_vars



\* ------------------------------------------------------------------ C18
\* the named viewing directions, in tenths, and the default one
NamedDirection ==
  [ saturn |-> Vec(8, 6, 8), earth |-> Vec(10, 4, 8), jupiter |-> Vec(10, 2, 6) ]
DefaultDirection == Vec(10, 3, 8)

\* body position + normalised direction * distance, the height added on y
OffsetTarget(bodyPosition, direction, distance, height) ==
  LET d == Scaled(direction, distance)
  IN Vec(bodyPosition[1] + d[1], bodyPosition[2] + d[2] + height, bodyPosition[3] + d[3])

ExpectedTarget(id, bodyPosition) ==
  IF id = "saturn" THEN OffsetTarget(bodyPosition, NamedDirection.saturn, 120, 25)
  ELSE OffsetTarget(bodyPosition,
                    IF id \in DOMAIN NamedDirection THEN NamedDirection[id]
                    ELSE DefaultDirection,
                    zoomParams[id].distance, zoomParams[id].height)

\* C18: every focus animation aims at the body's position plus the viewing
\* offset of that body: saturn, earth and jupiter by their named directions
\* (saturn with distance 12 and height 2.5, which differs from what the default
\* direction would give), every other planet by the default direction.
C18_OffsetByNamedOverride ==
  /\ \A i \in 1..Len(animations) :
        animations[i].targetCameraPosition
          = ExpectedTarget(animations[i].target, animations[i].planetPosition)
  /\ \A i \in 1..Len(zoomLog) :
        zoomLog[i].done
          => zoomLog[i].cam = ExpectedTarget(zoomLog[i].target, zoomLog[i].dest)
  /\ \A i \in 1..Len(animations) :
        animations[i].target = "saturn"
          => animations[i].targetCameraPosition
               # OffsetTarget(animations[i].planetPosition, DefaultDirection, 120, 25)

\* the focus animation on saturn has ended with the camera at saturn's offset
C18_Witness ==
  /\ settledOn = "saturn"
  /\ animations = << >>
  /\ "saturn" \in DOMAIN planetPositions
  /\ cameraPosition = OffsetTarget(planetPositions["saturn"], Vec(8, 6, 8), 120, 25)



\* ------------------------------------------------------------------ C19
\* C19: the stored orbital angle of every planet and satellite stays within
\* one period, 0 <= angle < 2 * pi, whatever the sign of its angular speed.
C19_AngleWithinOnePeriod ==
  Mounted => \A b \in Bodies : 0 <= angle[b] /\ angle[b] < TwoPi



\* ------------------------------------------------------------------ C20
Abs(n) == IF n < 0 THEN 0 - n ELSE n

\* the emission surface of the solar wind: radius in [1.1, 1.3] * sunSize
OnEmissionSurface(pos) ==
  /\ DistanceSq(pos, Origin) >= (sunSize * 110) * (sunSize * 110)
  /\ DistanceSq(pos, Origin) <= (sunSize * 130) * (sunSize * 130)

\* C20: after every frame of the particle fields each dust coordinate lies
\* within 250, 100 and 250 of the centre, a coordinate that crossed a face
\* being put on the opposite face, and the solar-wind particle lies within
\* 25 * sunSize of the origin, a particle that crossed that radius being
\* respawned on the emission surface.
C20_ParticlesInsideBoundary ==
  [][ ambientFrames' # ambientFrames
        => /\ \A i \in 1..3 :
                /\ Abs(dust'.pos[i]) <= DustBound[i]
                /\ (dust'.pos[i] - dust.pos[i] > DustBound[i])
                     => dust'.pos[i] = DustBound[i]
                /\ (dust.pos[i] - dust'.pos[i] > DustBound[i])
                     => dust'.pos[i] = 0 - DustBound[i]
           /\ Mounted
                => /\ DistanceSq(wind'.pos, Origin)
                        <= (sunSize * 25 * 100) * (sunSize * 25 * 100)
                   /\ wind'.pos # Plus(wind.pos, wind.vel)
                        => OnEmissionSurface(wind'.pos) ]_vars

\* one frame has wrapped the dust particle onto the opposite faces in x and y
\* and has respawned the wind particle that crossed the limit radius
C20_Witness ==
  /\ Mounted
  /\ ambientFrames = 1
  /\ dust.pos[1] = 0 - DustBound[1]
  /\ dust.pos[2] = 0 - DustBound[2]
  /\ wind \in WindSpawns

\* ------------------------------------------------------------------ C21
\* the per-particle size array of a generated field, under either of its names
SizeArrayLength(d) ==
  IF "sizes" \in DOMAIN d THEN d.sizes
  ELSE IF "scales" \in DOMAIN d THEN d.scales
  ELSE 0 - 1

\* C21: every generated particle field has positions.length / 3,
\* colors.length / 3 and sizes.length all equal to its count, none missing.
C21_ArraysMatchCount ==
  particleData.count > 0
    => /\ "positions" \in DOMAIN particleData
       /\ "colors" \in DOMAIN particleData
       /\ particleData.positions = 3 * particleData.count
       /\ particleData.colors = 3 * particleData.count
       /\ SizeArrayLength(particleData) = particleData.count

\* ------------------------------------------------------------------ C22
\* the loader.load calls made for a path, by the index of the call
CallsFor(path) == {i \in 1 .. Len(loaderLog) : loaderLog[i] = path}

Pending(id) == \E r \in loaderRequests : r.id = id

\* the texture of call id was delivered to the loadMaterials call that asked
Delivered(id) ==
  \E n \in 1 .. Len(materialLoads) :
    \/ materialLoads[n].clouds = id
    \/ \E k \in DOMAIN materialLoads[n].textureMap : materialLoads[n].textureMap[k] = id

\* C22: as long as no load of a path has failed, the loader is invoked at most
\* once for that path, whenever the requests for it are issued, and every
\* requester is given the same texture.
C22_LoaderOncePerPath ==
  \A path \in TexturePaths :
    (\A id \in CallsFor(path) : Pending(id) \/ Delivered(id))
      => /\ Cardinality(CallsFor(path)) <= 1
         /\ \A m, n \in 1 .. Len(materialLoads) :
              \A k \in (DOMAIN materialLoads[m].textureMap)
                         \cap (DOMAIN materialLoads[n].textureMap) :
                (materialLoads[m].planet = materialLoads[n].planet
                   /\ path = << materialLoads[m].planet, k >>)
                  => materialLoads[m].textureMap[k] = materialLoads[n].textureMap[k]

\* ------------------------------------------------------------------ C23
\* C23: a load that fails stops no texture that did load from being applied:
\* a loadMaterials call never ends without setMaterials while its textureMap
\* holds a loaded texture.
C23_FailureKeepsOtherTextures ==
  \A n \in 1 .. Len(materialLoads) :
    materialLoads[n].stage = "dropped" => DOMAIN materialLoads[n].textureMap = {}

\* ------------------------------------------------------------------ C24
\* C24: at most one animateZoom loop has a frame requested at any time: a
\* loop scheduled before the effect re-ran runs no further step.
C24_AtMostOneLoop == Len(animations) <= 1

\* ------------------------------------------------------------------ C25
\* C25: no increment is lost: every playing frame tick moves the angle state
\* of every body on by that tick's increment, whether or not React has
\* rendered since the tick before.
C25_EveryTickAddsItsIncrement ==
  [][ (now' # now /\ Ticking)
        => \A b \in Bodies : angle'[b] - angle[b] = ideal'[b] - ideal[b] ]_vars

\* ------------------------------------------------------------------ C26
\* C26: the position of every planet's orbit group is always the point of
\* its orbit at its current angle, (cos a * d, 0, sin a * d), from the mount on.
C26_PositionOnOrbit ==
  Mounted => \A p \in Planets :
               orbitPosition[p] = OrbitPoint(angle[p], PlanetDistance(p))

\* ------------------------------------------------------------------ C27
\* C27: in solar-system mode every click that selects a planet whose position
\* is known starts an animateZoom loop toward that planet, whatever was
\* selected, deselected or toggled before, the planet focused last included.
C27_ClickStartsFocus ==
  [][ ( /\ Mounted
        /\ selectedPlanet' # selectedPlanet
        /\ selectedPlanet' \in Planets
        /\ selectedPlanet' \in DOMAIN planetPositions )
        => /\ Len(animations') = Len(animations) + 1
           /\ animations'[Len(animations')].target = selectedPlanet' ]_vars

\* C27, second half: a focus target is the selected body
C27_FocusTargetIsSelected ==
  zoomTargetPlanet # Null => selectedPlanet = zoomTargetPlanet

\* ------------------------------------------------------------------ C28
\* C28: no cache lookup returns a texture or a geometry that dispose() had
\* been called on, across every unmount and remount of SolarSystem.
C28_NoDisposedResourceHandedOut == ~handedOut.disposed

\* ------------------------------------------------------------------ C29
\* the progress of loop a at time t, in milliseconds of the Duration
Progress(a, t) == Min(t - a.startTime, Duration)

\* the loops that can start and end before the clock bound
LoopsFollowed ==
  [ target : PauseTargets,
    startTime : {s * MsPerSecond : s \in 0 .. MaxSeconds - Duration \div MsPerSecond} ]

FollowedLoop(a, l) == a.target = l.target /\ a.startTime = l.startTime

\* the steps of one loop: progress in [0, 1) while a frame is requested and
\* never decreasing; the call at progress 1 writes the final pose, sets
\* isZooming to false and requests no further frame
LoopRunsToItsEnd ==
  \A i \in 1 .. Len(animations) :
    LET a == animations[i] IN
      /\ 0 <= Progress(a, now) /\ Progress(a, now) < Duration
      /\ Progress(a, now') >= Progress(a, now)
      /\ now' # now =>
           IF Progress(a, now') = Duration
           THEN /\ \A j \in 1 .. Len(animations') : animations'[j] # a
                /\ zoomLog'[i].done
                /\ zoomLog'[i].cam = a.targetCameraPosition
                /\ zoomLog'[i].look = a.planetPosition
                /\ ~isZooming'
           ELSE /\ \E j \in 1 .. Len(animations') : animations'[j] = a
                /\ ~zoomLog'[i].done

\* C29: every focus animation terminates: its progress never decreases and
\* stays in [0, 1], the call made once 2000 ms have elapsed is at progress 1,
\* writes the final camera position and orbit target, sets isZooming to false
\* and requests no frame, and every loop reaches that call.
C29_FocusAnimationTerminates ==
  /\ [][LoopRunsToItsEnd]_vars
  /\ \A l \in LoopsFollowed :
       (\E i \in 1 .. Len(animations) : FollowedLoop(animations[i], l))
         ~> ~(\E i \in 1 .. Len(animations) : FollowedLoop(animations[i], l))

\* a loop has just made its last call, 2000 ms after its start
C29_Witness ==
  /\ zoomLog # << >>
  /\ zoomLog[Len(zoomLog)].done
  /\ animations = << >>
  /\ ~isZooming
  /\ controlsTarget = zoomLog[Len(zoomLog)].dest
  /\ cameraPosition = zoomLog[Len(zoomLog)].cam

\* ------------------------------------------------------------------ C30
\* C30: the simulated date has advanced by timeSpeed days for every interval
\* tick made while playing, at every speed of the slider (the date in days
\* is a tenth of the speeds summed over the ticks); a tick at a speed above 0
\* moves the date forward.
C30_DateAdvancesBySpeed == simulationDate * 10 = simulatedDays

============================================================================
